---- MODULE Spec2Model ----
(***************************************************************************)
(* Scan Reports Analyzer (src/app.py): the pipeline between the raw model  *)
(* text and what the user sees -- the on-screen sections rendered by       *)
(* main() and the document built by create_enhanced_medical_pdf().         *)
(*                                                                         *)
(* Text is a sequence of atoms.  An atom is a TLA+ string standing for a   *)
(* fixed run of characters of the Python string; a text stands for the     *)
(* concatenation of its atoms.  The atoms are                              *)
(*   "*"  ":"  " "  "\n"              the single characters                *)
(*   "U1F52C", "U26A0_FE0F", ...      one emoji, named by its code points  *)
(*   "SCAN TYPE & PURPOSE", ...       the words of a heading, upper case   *)
(*   "Scan Type & Purpose", ...       the words of a heading, title case   *)
(*   "findings", "EMERGENCY", ...     one word of body text                *)
(*   "911"                            digits                               *)
(*   "<b>"                            an opening markup tag, never closed  *)
(*   "&lt;b&gt;"                      the same tag after escaping          *)
(*   "&"                              an ampersand                         *)
(*   "A200"                           a run of 200 letters "a"             *)
(* No atom contains "*", ":" or an emoji inside a longer run, so every     *)
(* place where one of the program's regular expressions can start, stop    *)
(* or look ahead is an atom boundary.                                      *)
(***************************************************************************)
EXTENDS Integers, Sequences, FiniteSets, TLC

(* Python's None where a str or bytes value is expected: a text of one atom *)
(* that no text contains.  NoneDict is None where a dict is expected.      *)
None == <<"None">>
NoneDict == [none |-> TRUE]

(* ---------------------------------------------------------------------- *)
(* The schema: the `sections` dict of create_enhanced_medical_pdf and the  *)
(* `sections` list of main().                                              *)
(* ---------------------------------------------------------------------- *)
sections ==
  << [emoji |-> "U1F52C", title |-> "SCAN TYPE & PURPOSE", key |-> "Scan Type & Purpose"],
     [emoji |-> "U1F4CB", title |-> "EXECUTIVE SUMMARY", key |-> "Executive Summary"],
     [emoji |-> "U1F50D", title |-> "DETAILED FINDINGS", key |-> "Detailed Findings"],
     [emoji |-> "U26A0_FE0F", title |-> "ABNORMALITIES IDENTIFIED", key |-> "Abnormalities Identified"],
     [emoji |-> "U1F6A8", title |-> "EMERGENCY STATUS", key |-> "Emergency Status"],
     [emoji |-> "U1F4DD", title |-> "PROBLEM EXPLANATION", key |-> "Problem Explanation"],
     [emoji |-> "U1F517", title |-> "MEDICAL CORRELATION", key |-> "Medical Correlation"],
     [emoji |-> "U1F468_200D_2695_FE0F", title |-> "SPECIALIST CONSULTATIONS", key |-> "Specialist Consultations"],
     [emoji |-> "U26A0_FE0F", title |-> "IMMEDIATE PRECAUTIONS", key |-> "Immediate Precautions"],
     [emoji |-> "U1F31F", title |-> "LIFESTYLE RECOMMENDATIONS", key |-> "Lifestyle Recommendations"],
     [emoji |-> "U1F4C5", title |-> "FOLLOW-UP REQUIREMENTS", key |-> "Follow-up Requirements"],
     [emoji |-> "U2753", title |-> "QUESTIONS FOR YOUR DOCTOR", key |-> "Questions for Your Doctor"],
     [emoji |-> "U1F6A8", title |-> "WARNING SIGNS", key |-> "Warning Signs"],
     [emoji |-> "U1F4CA", title |-> "PROGNOSIS & OUTLOOK", key |-> "Prognosis & Outlook"],
     [emoji |-> "U1F52C", title |-> "LATEST RESEARCH", key |-> "Latest Research"] >>

ui_sections ==
  << [emoji |-> "U1F52C", title |-> "Scan Type & Purpose", section_type |-> "normal"],
     [emoji |-> "U1F4CB", title |-> "Executive Summary", section_type |-> "normal"],
     [emoji |-> "U1F50D", title |-> "Detailed Findings", section_type |-> "normal"],
     [emoji |-> "U26A0_FE0F", title |-> "Abnormalities Identified", section_type |-> "warning"],
     [emoji |-> "U1F6A8", title |-> "Emergency Status", section_type |-> "emergency_else_normal"],
     [emoji |-> "U1F4DD", title |-> "Problem Explanation", section_type |-> "normal"],
     [emoji |-> "U1F517", title |-> "Medical Correlation", section_type |-> "normal"],
     [emoji |-> "U1F468_200D_2695_FE0F", title |-> "Specialist Consultations", section_type |-> "normal"],
     [emoji |-> "U26A0_FE0F", title |-> "Immediate Precautions", section_type |-> "warning"],
     [emoji |-> "U1F31F", title |-> "Lifestyle Recommendations", section_type |-> "success"],
     [emoji |-> "U1F4C5", title |-> "Follow-up Requirements", section_type |-> "normal"],
     [emoji |-> "U2753", title |-> "Questions for Your Doctor", section_type |-> "normal"],
     [emoji |-> "U1F6A8", title |-> "Warning Signs", section_type |-> "emergency_else_warning"],
     [emoji |-> "U1F4CA", title |-> "Prognosis & Outlook", section_type |-> "normal"],
     [emoji |-> "U1F52C", title |-> "Latest Research", section_type |-> "normal"] >>

NumSections == Len(sections)

EmojiAtoms ==
  {"U1F52C", "U1F4CB", "U1F50D", "U26A0_FE0F", "U1F6A8", "U1F4DD", "U1F517",
   "U1F468_200D_2695_FE0F", "U1F31F", "U1F4C5", "U2753", "U1F4CA"}

HeadingAtoms ==
  {sections[i].title : i \in 1..NumSections} \cup {sections[i].key : i \in 1..NumSections}

WordAtoms == {"findings", "Normal", "emergency", "EMERGENCY", "Urgent", "a", "A200", "chest pain"}

OtherAtoms == {"*", ":", " ", "\n", "911", "<b>", "&lt;b&gt;", "&", "..."}

Atoms == EmojiAtoms \cup HeadingAtoms \cup WordAtoms \cup OtherAtoms

(* str.lower() on one atom *)
LowerAtom(a) ==
  CASE a = "SCAN TYPE & PURPOSE" -> "scan type & purpose"
      [] a = "Scan Type & Purpose" -> "scan type & purpose"
      [] a = "EXECUTIVE SUMMARY" -> "executive summary"
      [] a = "Executive Summary" -> "executive summary"
      [] a = "DETAILED FINDINGS" -> "detailed findings"
      [] a = "Detailed Findings" -> "detailed findings"
      [] a = "ABNORMALITIES IDENTIFIED" -> "abnormalities identified"
      [] a = "Abnormalities Identified" -> "abnormalities identified"
      [] a = "EMERGENCY STATUS" -> "emergency status"
      [] a = "Emergency Status" -> "emergency status"
      [] a = "PROBLEM EXPLANATION" -> "problem explanation"
      [] a = "Problem Explanation" -> "problem explanation"
      [] a = "MEDICAL CORRELATION" -> "medical correlation"
      [] a = "Medical Correlation" -> "medical correlation"
      [] a = "SPECIALIST CONSULTATIONS" -> "specialist consultations"
      [] a = "Specialist Consultations" -> "specialist consultations"
      [] a = "IMMEDIATE PRECAUTIONS" -> "immediate precautions"
      [] a = "Immediate Precautions" -> "immediate precautions"
      [] a = "LIFESTYLE RECOMMENDATIONS" -> "lifestyle recommendations"
      [] a = "Lifestyle Recommendations" -> "lifestyle recommendations"
      [] a = "FOLLOW-UP REQUIREMENTS" -> "follow-up requirements"
      [] a = "Follow-up Requirements" -> "follow-up requirements"
      [] a = "QUESTIONS FOR YOUR DOCTOR" -> "questions for your doctor"
      [] a = "Questions for Your Doctor" -> "questions for your doctor"
      [] a = "WARNING SIGNS" -> "warning signs"
      [] a = "Warning Signs" -> "warning signs"
      [] a = "PROGNOSIS & OUTLOOK" -> "prognosis & outlook"
      [] a = "Prognosis & Outlook" -> "prognosis & outlook"
      [] a = "LATEST RESEARCH" -> "latest research"
      [] a = "Latest Research" -> "latest research"
      [] a = "Normal" -> "normal"
      [] a = "EMERGENCY" -> "emergency"
      [] a = "Urgent" -> "urgent"
      [] a = "A200" -> "a200"
      [] OTHER -> a

LowerMap == [a \in Atoms |-> LowerAtom(a)]

(* text.lower() *)
Lower(t) == [k \in DOMAIN t |-> LowerMap[t[k]]]

(* the atoms, in lower case, whose characters contain the word *)
AtomsContaining(word) ==
  CASE word = "emergency" -> {"emergency", "emergency status"}
    [] word = "urgent" -> {"urgent"}

(* `word in text` for an already lower-cased text *)
Contains(lt, word) == \E k \in DOMAIN lt : lt[k] \in AtomsContaining(word)

(* [A-Z] under re.IGNORECASE: the atom begins with an ASCII letter *)
LetterAtoms == HeadingAtoms \cup WordAtoms

IsSpace(a) == a \in {" ", "\n"}

(* str.strip() *)
RECURSIVE LStripFrom(_, _)
LStripFrom(t, p) ==
  IF p > Len(t) THEN p
  ELSE IF IsSpace(t[p]) THEN LStripFrom(t, p + 1) ELSE p

RECURSIVE RStripFrom(_, _)
RStripFrom(t, q) ==
  IF q < 1 THEN q
  ELSE IF IsSpace(t[q]) THEN RStripFrom(t, q - 1) ELSE q

strip(t) == SubSeq(t, LStripFrom(t, 1), RStripFrom(t, Len(t)))

(* ---------------------------------------------------------------------- *)
(* re.search(pattern, text, re.DOTALL | re.IGNORECASE) for the patterns of *)
(* the program, which all have the form  LITERAL(.*?)(?=LOOKAHEAD|$).      *)
(* A pattern is [lit |-> the literal's atoms, la |-> the lookahead as a    *)
(* sequence of sets of atoms].                                             *)
(* ---------------------------------------------------------------------- *)
MatchAt(lt, p, lit) ==
  /\ p + Len(lit) - 1 <= Len(lt)
  /\ \A k \in 1..Len(lit) : lt[p + k - 1] = lit[k]

Min(S) == CHOOSE x \in S : \A y \in S : x <= y

(* leftmost position where the literal matches, 0 when there is none *)
Find(lt, lit) ==
  LET starts == {p \in 1..(Len(lt) - Len(lit) + 1) : MatchAt(lt, p, lit)}
  IN  IF starts = {} THEN 0 ELSE Min(starts)

LookaheadAt(t, q, la) ==
  /\ q + Len(la) - 1 <= Len(t)
  /\ \A k \in 1..Len(la) : t[q + k - 1] \in la[k]

(* $ without re.MULTILINE: the end of the text, or just before a final newline *)
DollarAt(t, q) == q = Len(t) + 1 \/ (q = Len(t) /\ t[q] = "\n")

(* (.*?) is lazy: it ends at the first position >= q where (?=LOOKAHEAD|$)  *)
(* holds; the end of the text is always such a position                     *)
LazyStop(t, q, la) ==
  Min({r \in q..(Len(t) + 1) : LookaheadAt(t, r, la) \/ DollarAt(t, r)})

(* match.group(1) of re.search(pattern, t, re.DOTALL | re.IGNORECASE), or    *)
(* None when the pattern does not match; lt is t in lower case               *)
re_search(pattern, t, lt) ==
  LET p == Find(lt, Lower(pattern.lit))
  IN  IF p = 0 THEN None
      ELSE LET s == p + Len(pattern.lit)
           IN  SubSeq(t, s, LazyStop(t, s, pattern.la) - 1)

(* the loop `for pattern in patterns: match = re.search(...); if match:    *)
(* content = match.group(1).strip(); break`, started at pattern k          *)
RECURSIVE first_match(_, _, _, _)
first_match(patterns, t, lt, k) ==
  IF k > Len(patterns) THEN None
  ELSE LET g == re_search(patterns[k], t, lt)
       IN  IF g # None THEN strip(g) ELSE first_match(patterns, t, lt, k + 1)

(* Python truth of a str-or-None value *)
Truthy(x) == x # None /\ x # <<>>

(* the `patterns` list of create_enhanced_medical_pdf for one section *)
pdf_patterns(i) ==
  LET e == sections[i].emoji
      section_title == <<e, " ", sections[i].title>>
      section_key == <<sections[i].key>>
  IN  << [lit |-> <<"*", "*">> \o section_title \o <<":", "*", "*">>,
          la  |-> <<{"*"}, {"*"}, EmojiAtoms, {" "}, LetterAtoms>>],
         [lit |-> <<"*", "*">> \o section_key \o <<":", "*", "*">>,
          la  |-> <<{"*"}, {"*"}, LetterAtoms>>],
         [lit |-> section_title \o <<":">>,
          la  |-> <<EmojiAtoms, {" "}, LetterAtoms>>],
         [lit |-> <<"*">> \o section_key \o <<":", "*">>,
          la  |-> <<{"*"}, LetterAtoms>>] >>

(* content_found of create_enhanced_medical_pdf for section i *)
content_found(analysis_results, i) ==
  first_match(pdf_patterns(i), analysis_results, Lower(analysis_results), 1)

(* the `patterns` list of main() for one section *)
ui_patterns(i) ==
  LET section_title == <<ui_sections[i].emoji, " ", ui_sections[i].title>>
  IN  << [lit |-> <<"*", "*">> \o section_title \o <<":", "*", "*">>,
          la  |-> <<{"*"}, {"*"}, EmojiAtoms>>],
         [lit |-> section_title \o <<":">>,
          la  |-> <<EmojiAtoms>>],
         [lit |-> <<"*">> \o section_title \o <<":", "*">>,
          la  |-> <<{"*"}, LetterAtoms>>] >>

(* content of main() for section i *)
ui_content(analysis_text, i) ==
  first_match(ui_patterns(i), analysis_text, Lower(analysis_text), 1)

(* is_emergency of main(), and the test of the emergency banner *)
is_emergency(analysis_text) ==
  Contains(Lower(analysis_text), "emergency") \/ Contains(Lower(analysis_text), "urgent")

(* the section_type main() gives section i *)
ui_section_type(i, emergency) ==
  LET ty == ui_sections[i].section_type
  IN  CASE ty = "emergency_else_normal" -> IF emergency THEN "emergency" ELSE "normal"
        [] ty = "emergency_else_warning" -> IF emergency THEN "emergency" ELSE "warning"
        [] OTHER -> ty

(* the sections main() displays: display_enhanced_analysis_section is      *)
(* called for each section whose content is truthy, in list order          *)
RECURSIVE ui_display(_, _)
ui_display(analysis_text, i) ==
  IF i > NumSections THEN <<>>
  ELSE LET content == ui_content(analysis_text, i)
       IN  (IF Truthy(content)
            THEN << [section |-> i, content |-> content,
                     section_type |-> ui_section_type(i, is_emergency(analysis_text))] >>
            ELSE <<>>) \o ui_display(analysis_text, i + 1)

(* ---------------------------------------------------------------------- *)
(* create_enhanced_medical_pdf                                             *)
(* ---------------------------------------------------------------------- *)

(* len() of the atoms a patient field is made of *)
CharLen(a) ==
  CASE a = "A200" -> 200
    [] a = "chest pain" -> 10
    [] a = "<b>" -> 3
    [] OTHER -> 1

RECURSIVE TextLen(_)
TextLen(t) == IF t = <<>> THEN 0 ELSE CharLen(Head(t)) + TextLen(Tail(t))

TruncateAt == 200

(* number of leading atoms of t that fit in n characters *)
RECURSIVE FitCount(_, _)
FitCount(t, n) ==
  IF t = <<>> \/ CharLen(Head(t)) > n THEN 0
  ELSE 1 + FitCount(Tail(t), n - CharLen(Head(t)))

(* the slice x[:200] falls on an atom boundary *)
SliceAligned(t) ==
  TextLen(t) <= TruncateAt \/ TextLen(SubSeq(t, 1, FitCount(t, TruncateAt))) = TruncateAt

(* f"{x[:200]}{'...' if len(x) > 200 else ''}" for a text with SliceAligned *)
truncated(x) ==
  SubSeq(x, 1, FitCount(x, TruncateAt)) \o (IF TextLen(x) > TruncateAt THEN <<"...">> ELSE <<>>)

(* the "Patient Profile" lines of enhanced_query in analyze_medical_scan *)
enhanced_query(patient_data, scan_type) ==
  << <<"- Age: ", ToString(patient_data.age), " years">>,
     <<"- Gender: ", patient_data.gender>>,
     <<"- Medical History: ">> \o patient_data.medical_history,
     <<"- Current Medications: ">> \o patient_data.medications,
     <<"- Current Symptoms: ">> \o patient_data.symptoms,
     <<"- Health Problems: ">> \o patient_data.health_problems,
     <<"- Diet: ">> \o patient_data.diet,
     <<"- Lifestyle: ">> \o patient_data.lifestyle,
     <<"- Habits: ">> \o patient_data.habits,
     <<"- Family History: ">> \o patient_data.family_history >>

(* the patient_info list *)
patient_info(patient_data, scan_type, now) ==
  << <<"Age: ", ToString(patient_data.age), " years">>,
     <<"Gender: ", patient_data.gender>>,
     <<"Scan Type: ">> \o scan_type,
     <<"Analysis Date: ">> \o now,
     <<"Medical History: ">> \o truncated(patient_data.medical_history),
     <<"Current Medications: ">> \o truncated(patient_data.medications),
     <<"Current Symptoms: ">> \o truncated(patient_data.symptoms) >>

(* Image bytes are a text of one atom naming what the file holds: "PNG" a  *)
(* sound image, "TRUNCATED_PNG" an image header whose pixel data is cut    *)
(* short, "NOT_AN_IMAGE" anything else; <<>> is the empty file b"".        *)
(* Image.open(BytesIO(image_data)) reads the header only.                  *)
ImageOpens(image_data) == image_data \in {<<"PNG">>, <<"TRUNCATED_PNG">>}

(* the pixel data can be decoded when the document is built *)
ImageDecodes(image_data) == image_data = <<"PNG">>

(* text.replace('<', '&lt;').replace('>', '&gt;') *)
EscapeAtom(a) == IF a = "<b>" THEN "&lt;b&gt;" ELSE a
escape(t) == [k \in DOMAIN t |-> EscapeAtom(t[k])]

(* content_found.split("\n") *)
RECURSIVE split_lines(_, _)
split_lines(t, acc) ==
  IF t = <<>> THEN <<acc>>
  ELSE IF Head(t) = "\n" THEN <<acc>> \o split_lines(Tail(t), <<>>)
  ELSE split_lines(Tail(t), Append(acc, Head(t)))

(* section_key.upper() for the two keys it is applied to *)
upper(a) ==
  CASE a = "Emergency Status" -> "EMERGENCY STATUS"
    [] a = "Warning Signs" -> "WARNING SIGNS"

(* Paragraph(text, style) parses its text as markup: an opening tag that is *)
(* never closed makes the constructor raise                                *)
ParagraphRaises(text) == \E k \in DOMAIN text : text[k] = "<b>"

(* A flowable appended to `content`.  part names the place of the function *)
(* that appends it, sec the schema section it belongs to (0: none), raw    *)
(* the caller-supplied text inside it.                                     *)
Paragraph(part, text, style, sec, raw) ==
  [part |-> part, flowable |-> "Paragraph", style |-> style, text |-> text,
   sec |-> sec, raw |-> raw]
Spacer(part) ==
  [part |-> part, flowable |-> "Spacer", style |-> "", text |-> <<>>, sec |-> 0, raw |-> <<>>]
ReportLabImage(image_data) ==
  [part |-> "image", flowable |-> "Image", style |-> "", text |-> image_data,
   sec |-> 0, raw |-> <<>>]

header_blocks ==
  << Paragraph("title", <<"U1F52C SCAN REPORTS ANALYZER">>, "title_style", 0, <<>>),
     Paragraph("title", <<"Universal Medical Imaging Analysis Report">>, "subtitle_style", 0, <<>>),
     Paragraph("title", <<"Real-Time Medical Data Integration">>, "subtitle_style", 0, <<>>),
     Spacer("title"),
     Paragraph("disclaimer", <<"U26A0_FE0F MEDICAL DISCLAIMER: ...">>, "disclaimer_style", 0, <<>>),
     Spacer("disclaimer") >>

RECURSIVE info_blocks(_, _)
info_blocks(infos, k) ==
  IF k > Len(infos) THEN <<>>
  ELSE << Paragraph("patient", infos[k], "normal_style", 0, Tail(infos[k])) >>
       \o info_blocks(infos, k + 1)

patient_blocks(patient_data, scan_type, now) ==
  << Paragraph("patient", <<"U1F464 PATIENT INFORMATION">>, "heading_style", 0, <<>>) >>
  \o info_blocks(patient_info(patient_data, scan_type, now), 1)
  \o << Spacer("patient") >>

image_blocks(image_data, scan_type) ==
  IF ~Truthy(image_data) THEN <<>>
  ELSE IF ImageOpens(image_data)
       THEN << Paragraph("image", <<"U1F5BC_FE0F", " ">> \o scan_type \o <<" IMAGE">>, "heading_style", 0, <<>>),
               ReportLabImage(image_data),
               Spacer("image") >>
       ELSE << Paragraph("image_error", <<"U26A0_FE0F Could not include image: ", "img_error">>,
                         "normal_style", 0, <<>>) >>

(* the paragraphs of an ordinary section body *)
RECURSIVE body_blocks(_, _, _)
body_blocks(paragraphs, k, i) ==
  IF k > Len(paragraphs) THEN <<>>
  ELSE (IF strip(paragraphs[k]) # <<>>
        THEN << Paragraph("section", escape(strip(paragraphs[k])), "normal_style", i,
                          escape(strip(paragraphs[k]))) >>
        ELSE <<>>) \o body_blocks(paragraphs, k + 1, i)

(* the blocks of one section whose content_found is truthy *)
section_blocks(found, i) ==
  LET section_title == <<sections[i].emoji, " ", sections[i].title>>
      section_key == sections[i].key
  IN  (IF section_key \in {"Emergency Status", "Warning Signs"}
       THEN IF Contains(Lower(found), "emergency") \/ Contains(Lower(found), "urgent")
            THEN << Paragraph("section", <<"U1F6A8", " ", upper(section_key)>>, "heading_style", i, <<>>),
                    Paragraph("section", found, "emergency_style", i, found) >>
            ELSE << Paragraph("section", section_title, "heading_style", i, <<>>),
                    Paragraph("section", found, "normal_style", i, found) >>
       ELSE << Paragraph("section", section_title, "heading_style", i, <<>>) >>
            \o body_blocks(split_lines(found, <<>>), 1, i))
      \o << Spacer("section") >>

(* a variant that prints the heading of a section also when nothing was    *)
(* found for it                                                            *)
RECURSIVE analysis_blocks_every_heading(_, _)
analysis_blocks_every_heading(analysis_results, i) ==
  IF i > NumSections THEN <<>>
  ELSE LET found == content_found(analysis_results, i)
       IN  (IF Truthy(found) THEN section_blocks(found, i)
            ELSE << Paragraph("section", <<sections[i].emoji, " ", sections[i].title>>,
                              "heading_style", i, <<>>),
                    Spacer("section") >>)
           \o analysis_blocks_every_heading(analysis_results, i + 1)

(* the loop over sections.items(), from section i on *)
RECURSIVE analysis_blocks(_, _)
analysis_blocks(analysis_results, i) ==
  IF i > NumSections THEN <<>>
  ELSE LET found == content_found(analysis_results, i)
       IN  (IF Truthy(found) THEN section_blocks(found, i) ELSE <<>>)
           \o analysis_blocks(analysis_results, i + 1)

closing_blocks ==
  << Paragraph("contact", <<"U1F6A8 EMERGENCY CONTACT INFORMATION">>, "heading_style", 0, <<>>),
     Paragraph("contact", <<"SEEK IMMEDIATE MEDICAL ATTENTION for: ...">>, "emergency_style", 0, <<>>),
     Spacer("footer"),
     Paragraph("footer", <<"(c) 2025 Scan Reports Analyzer | ...">>, "Footer", 0, <<>>) >>

(* a variant that appends the emergency contact block only for a text the  *)
(* whole-text test calls an emergency                                      *)
pdf_content_callout_on_emergency(image_data, analysis_results, patient_data, scan_type, now) ==
  header_blocks
  \o patient_blocks(patient_data, scan_type, now)
  \o image_blocks(image_data, scan_type)
  \o << Paragraph("analysis", <<"U1F4CA COMPREHENSIVE MEDICAL ANALYSIS">>, "heading_style", 0, <<>>) >>
  \o (IF Truthy(analysis_results)
      THEN analysis_blocks(analysis_results, 1) ELSE <<>>)
  \o (IF is_emergency(analysis_results) THEN closing_blocks ELSE SubSeq(closing_blocks, 3, 4))

(* every flowable the function appends to `content` when nothing raises *)
pdf_content(image_data, analysis_results, patient_data, scan_type, now) ==
  header_blocks
  \o patient_blocks(patient_data, scan_type, now)
  \o image_blocks(image_data, scan_type)
  \o << Paragraph("analysis", <<"U1F4CA COMPREHENSIVE MEDICAL ANALYSIS">>, "heading_style", 0, <<>>) >>
  \o (IF Truthy(analysis_results)
      THEN analysis_blocks(analysis_results, 1) ELSE <<>>)
  \o closing_blocks

(* index of the first Paragraph whose constructor raises, 0 when none does *)
RECURSIVE FirstRaise(_, _)
FirstRaise(blocks, k) ==
  IF k > Len(blocks) THEN 0
  ELSE IF blocks[k].flowable = "Paragraph" /\ ParagraphRaises(blocks[k].text) THEN k
  ELSE FirstRaise(blocks, k + 1)

(* pdf.build(content) raises when an Image flowable cannot be decoded *)
BuildRaises(blocks) ==
  \E k \in DOMAIN blocks : blocks[k].flowable = "Image" /\ ~ImageDecodes(blocks[k].text)

(* a variant whose except branch returns the buffer written so far *)
create_enhanced_medical_pdf_partial(image_data, analysis_results, patient_data, scan_type, now) ==
  LET blocks == pdf_content(image_data, analysis_results, patient_data, scan_type, now)
      r == FirstRaise(blocks, 1)
  IN  IF r # 0
      THEN [calls |-> SubSeq(blocks, 1, r), error |-> FALSE, bytes |-> <<"%PDF">>]
      ELSE IF BuildRaises(blocks)
           THEN [calls |-> blocks, error |-> TRUE, bytes |-> None]
           ELSE [calls |-> blocks, error |-> FALSE, bytes |-> <<"%PDF">>]

(* One call of create_enhanced_medical_pdf.  calls: the flowables it       *)
(* constructed, ending with the Paragraph whose constructor raised if one  *)
(* did; error: the `except Exception` branch ran (st.error); bytes: the    *)
(* return value, None or the buffer that serializes `calls`.               *)
create_enhanced_medical_pdf(image_data, analysis_results, patient_data, scan_type, now) ==
  LET blocks == pdf_content(image_data, analysis_results, patient_data, scan_type, now)
      r == FirstRaise(blocks, 1)
  IN  IF r # 0
      THEN [calls |-> SubSeq(blocks, 1, r), error |-> TRUE, bytes |-> None]
      ELSE IF BuildRaises(blocks)
           THEN [calls |-> blocks, error |-> TRUE, bytes |-> None]
           ELSE [calls |-> blocks, error |-> FALSE, bytes |-> <<"%PDF">>]

(* ---------------------------------------------------------------------- *)
(* The state of one browser session of the application.                    *)
(* ---------------------------------------------------------------------- *)
VARIABLES
  secrets,        \* st.secrets: the API keys that are configured
  agent_cache,    \* st.cache_resource entry of get_medical_agent: <<>> (no entry), <<"Agent">> or None
  session_state,  \* st.session_state: a function from the keys set so far to their values
  clock,          \* datetime.now(), counted in submissions
  screen,         \* what the last run of the script rendered
  pdf,            \* the last call of create_enhanced_medical_pdf, NoneDict when the last run made none
  model_calls,    \* the number of agent.run(enhanced_query, ...) calls the last run made
  temp_path,      \* what save_uploaded_file returned in the last run, None when it gave no path
  tmp_files,      \* the temporary files that exist on disk
  pending,        \* the submission that is between save_uploaded_file and the end of its run, else NoneDict
  analysis_result, \* what analyze_medical_scan returned in the last run (line 877), None before that
  cancelled,      \* whether a rerun request stopped the last run before its end
  other_at        \* the line a submission of another browser session stands at, 0 when it has none

vars == <<secrets, agent_cache, session_state, clock, screen, pdf, model_calls, temp_path,
          tmp_files, pending, analysis_result, cancelled, other_at>>

SessionKeys == {"analysis_results", "medical_image", "patient_data", "scan_type", "analysis_timestamp"}

(* the five `if key not in st.session_state` statements at the top of main() *)
init_session_state(ss) ==
  [k \in SessionKeys |->
     IF k \in DOMAIN ss THEN ss[k] ELSE IF k = "patient_data" THEN NoneDict ELSE None]

(* strftime("%Y-%m-%d %H:%M:%S") of the clock *)
strftime(now) == <<ToString(now)>>

(* The "Display Results" part of main(), lines 901-993, run on a session    *)
(* state ss: the sections shown, the document call and the download button. *)
display_results(ss, now) ==
  IF ~Truthy(ss["analysis_results"])
  THEN [results |-> FALSE, is_emergency |-> FALSE, shown |-> <<>>, call |-> NoneDict,
        download |-> None]
  ELSE LET analysis_text == ss["analysis_results"]
           call == IF Truthy(ss["medical_image"]) /\ ss["patient_data"] # NoneDict
                   THEN create_enhanced_medical_pdf(ss["medical_image"], ss["analysis_results"],
                                                    ss["patient_data"], ss["scan_type"], strftime(now))
                   ELSE NoneDict
       IN  [results |-> TRUE,
            is_emergency |-> is_emergency(analysis_text),
            shown |-> ui_display(analysis_text, 1),
            call |-> call,
            download |-> IF call # NoneDict /\ Truthy(call.bytes) THEN call.bytes ELSE None]

(* st.error in the except branch of the document call *)
pdf_messages(call) ==
  IF call # NoneDict /\ call.error THEN <<"Error creating enhanced PDF">> ELSE <<>>

(* ---------------------------------------------------------------------- *)
(* Inputs                                                                  *)
(* ---------------------------------------------------------------------- *)
MaxPieces == 3
MaxSubmissions == 2

AllSecrets == {"TAVILY_API_KEY", "GOOGLE_API_KEY"}

(* entries of the scan type selectbox *)
ScanTypes == {<<"CT Scan">>, <<"Blood Test Results">>}

(* what the text areas of the form can hold; every one has SliceAligned *)
PatientTexts == {<<>>, <<"chest pain">>, <<"<b>">>, <<"&">>, <<"A200", "a">>, <<"A200", "<b>">>}

patient_form(medical_history, medications) ==
  [age |-> 30, gender |-> "Male", medical_history |-> medical_history,
   medications |-> medications, symptoms |-> <<"chest pain">>, health_problems |-> <<>>,
   family_history |-> <<>>, diet |-> <<>>, lifestyle |-> <<>>, habits |-> <<>>]

Patients == {patient_form(mh, med) : mh \in PatientTexts, med \in {<<>>, <<"<b>">>}}

DefaultPatient == patient_form(<<"chest pain">>, <<>>)

(* uploaded_file.getvalue() *)
Uploads == {<<"PNG">>, <<"TRUNCATED_PNG">>, <<"NOT_AN_IMAGE">>, <<>>}

(* the heading of section i as the prompt demands it: **<emoji> <TITLE>:** *)
PromptHeading(i) ==
  <<"*", "*", sections[i].emoji, " ", sections[i].title, ":", "*", "*">>

(* the pieces a short model response is put together from *)
Pieces ==
  { PromptHeading(3),
    PromptHeading(5),
    <<"*", "*", "Emergency Status", ":", "*", "*">>,
    <<"U1F6A8", " ", "WARNING SIGNS", ":">>,
    <<"findings">>,
    <<"EMERGENCY">>,
    <<"\n">>,
    <<"<b>">>,
    <<"*", "*", "U1F6A8", " ", "Urgent">> }

RECURSIVE PieceTexts(_)
PieceTexts(n) ==
  IF n = 0 THEN {<<>>}
  ELSE LET shorter == PieceTexts(n - 1)
       IN  shorter \cup {t \o p : t \in shorter, p \in Pieces}

(* a response that has every schema heading in the prompt's form, each     *)
(* followed by the body `body`, except that section `special` has the body *)
(* `other`                                                                 *)
RECURSIVE FullResponseFrom(_, _, _, _)
FullResponseFrom(i, body, special, other) ==
  IF i > NumSections THEN <<>>
  ELSE PromptHeading(i) \o <<"\n">> \o (IF i = special THEN other ELSE body) \o <<"\n", "\n">>
       \o FullResponseFrom(i + 1, body, special, other)

SpecialBodies ==
  { <<>>, <<"EMERGENCY">>, <<"Urgent", " ", "findings">>, <<"<b>">>, <<"&">>,
    <<"*", "*", "U1F6A8", " ", "Urgent">>, <<"findings", "\n", "\n", "*", "*", "Normal">> }

FullResponses ==
  {FullResponseFrom(1, <<"findings">>, special, other) :
     special \in 1..NumSections, other \in SpecialBodies}

(* response.content of the model, and what analyze_medical_scan returns    *)
(* for it: response.content.strip()                                        *)
ModelContents == PieceTexts(MaxPieces) \cup FullResponses
AnalysisResults == {strip(c) : c \in ModelContents} \ {<<>>}

(* the responses tried together with every patient, upload and scan type *)
CoreResponses ==
  { <<"findings">>,
    PromptHeading(5) \o <<"findings">>,
    PromptHeading(5) \o <<"EMERGENCY">>,
    PromptHeading(3) \o <<"<b>">> \o PromptHeading(5) \o <<"<b>">>,
    FullResponseFrom(1, <<"findings">>, 0, <<>>) }

(* ---------------------------------------------------------------------- *)
(* The script runs                                                         *)
(* ---------------------------------------------------------------------- *)
BlankScreen ==
  [stopped |-> FALSE, messages |-> <<>>, banner |-> FALSE, results |-> FALSE,
   is_emergency |-> FALSE, shown |-> <<>>, download |-> None]

(* a variant that is content with either key *)
ApiKeysAvailable_either(configured) ==
  "TAVILY_API_KEY" \in configured \/ "GOOGLE_API_KEY" \in configured

(* lines 145-149: both keys are truthy *)
ApiKeysAvailable(configured) ==
  "TAVILY_API_KEY" \in configured /\ "GOOGLE_API_KEY" \in configured

Init ==
  /\ secrets \in SUBSET AllSecrets
  /\ agent_cache = <<>>
  /\ session_state = [k \in {} |-> None]
  /\ clock = 0
  /\ screen = BlankScreen
  /\ pdf = NoneDict
  /\ model_calls = 0
  /\ temp_path = None
  /\ tmp_files = {}
  /\ pending = NoneDict
  /\ analysis_result = None
  /\ cancelled = FALSE
  /\ other_at = 0

(* Lines 23-151: a run with an API key missing reports it and stops at    *)
(* st.stop(), unless a rerun request stops it before, at the Streamlit     *)
(* call of line 23, 31 or 150, with nothing reported.                      *)
ConfigStop ==
  /\ ~ApiKeysAvailable(secrets)
  /\ \E stop_at \in {0, 23, 31, 150} :
       /\ cancelled' = (stop_at # 0)
       /\ screen' = [BlankScreen EXCEPT
                       !.stopped = TRUE,
                       !.messages = IF stop_at = 0 THEN <<"API keys are missing">> ELSE <<>>]
  /\ pdf' = NoneDict
  /\ model_calls' = 0
  /\ temp_path' = None
  /\ analysis_result' = None
  /\ UNCHANGED <<other_at, secrets, agent_cache, session_state, clock, tmp_files, pending>>

(* the file of st.file_uploader: its MIME type, as the prefix up to the    *)
(* slash and the rest, and its bytes; NoneDict when no file is uploaded    *)
UploadedFiles ==
  {[type |-> <<"image/", "png">>, value |-> v] : v \in Uploads}
  \cup {[type |-> <<"image/", "jpeg">>, value |-> <<"NOT_AN_IMAGE">>],
        [type |-> <<"application/", "pdf">>, value |-> <<"NOT_AN_IMAGE">>]}

(* str.startswith *)
startswith(text, prefix) ==
  Len(text) >= Len(prefix) /\ SubSeq(text, 1, Len(prefix)) = prefix

(* resize_image_for_display: Image.open reads the header, img.resize        *)
(* decodes the pixel data; any exception is reported and None returned      *)
resize_image_for_display(image_file) ==
  IF ImageOpens(image_file.value) /\ ImageDecodes(image_file.value)
  THEN [resized_image |-> <<"PNG">>, messages |-> <<>>]
  ELSE [resized_image |-> None, messages |-> <<"Error resizing image">>]

(* lines 845-854: the st.error messages of the preview of the uploaded file *)
upload_preview(uploaded_file) ==
  IF uploaded_file = NoneDict THEN <<>>
  ELSE IF startswith(uploaded_file.type, <<"image/">>)
       THEN resize_image_for_display(uploaded_file).messages
  ELSE <<>>

(* A rerun request stops the script at the Streamlit call it reaches next, *)
(* by an exception that no `except Exception` catches.  A stop is the line *)
(* of that call and the number of sections displayed before it; NoStop     *)
(* when no request is pending.                                             *)
NoStop == [at |-> 0, shown |-> 0]

(* The stops of the "Display Results" part and after it: at line 903 or    *)
(* 904, before anything of the results is displayed; at line 905, with the *)
(* heading displayed and is_emergency not yet assigned; at the first call  *)
(* of a section or at line 950, with the heading and k sections displayed  *)
(* and is_emergency assigned; at                                           *)
(* the end of the document call (line 654 or 987), before the download     *)
(* button; at a call after line 993, with everything displayed.  A stop at *)
(* a call before the Analyze button is tested (lines 693-855) leaves what  *)
(* the stop at line 903 leaves, or the stop after line 993 when there are  *)
(* no results.                                                             *)
DisplayStops(d) ==
  {[at |-> 996, shown |-> Len(d.shown)]}
  \cup (IF d.results
        THEN {[at |-> 903, shown |-> 0], [at |-> 905, shown |-> 0]}
             \cup {[at |-> 947, shown |-> k] : k \in 0..Len(d.shown)}
        ELSE {})
  \cup (IF d.call # NoneDict THEN {[at |-> 987, shown |-> Len(d.shown)]} ELSE {})

(* the screen and the document call of a run that reaches display_results, *)
(* d being what display_results gives when it is not stopped               *)
Rendered(d, messages, banner, stop) ==
  IF stop = NoStop \/ stop.at = 996
  THEN /\ screen' = [stopped |-> stop # NoStop, messages |-> messages \o pdf_messages(d.call),
                     banner |-> banner, results |-> d.results,
                     is_emergency |-> d.is_emergency, shown |-> d.shown,
                     download |-> d.download]
       /\ pdf' = d.call
  ELSE IF stop.at = 987
  THEN /\ screen' = [stopped |-> TRUE, messages |-> messages,
                     banner |-> banner, results |-> d.results,
                     is_emergency |-> d.is_emergency, shown |-> d.shown,
                     download |-> None]
       /\ pdf' = d.call
  ELSE IF stop.at = 947
  THEN /\ screen' = [stopped |-> TRUE, messages |-> messages,
                     banner |-> banner, results |-> TRUE,
                     is_emergency |-> d.is_emergency,
                     shown |-> SubSeq(d.shown, 1, stop.shown),
                     download |-> None]
       /\ pdf' = NoneDict
  ELSE IF stop.at = 905
  THEN /\ screen' = [BlankScreen EXCEPT !.stopped = TRUE, !.messages = messages,
                                        !.banner = banner, !.results = TRUE]
       /\ pdf' = NoneDict
  ELSE /\ screen' = [BlankScreen EXCEPT !.stopped = TRUE, !.messages = messages,
                                        !.banner = banner]
       /\ pdf' = NoneDict

(* A run of the script in which the Analyze button is not pressed, with or *)
(* without a file in the uploader; stoppable says whether rerun requests   *)
(* arrive during the run.  A stop at line 23 or 31 comes before main()     *)
(* sets the session keys (lines 681-691).                                  *)
Run(stoppable) ==
  /\ ApiKeysAvailable(secrets)
  /\ pending = NoneDict
  /\ \/ /\ stoppable
        /\ \E stop_at \in {23, 31} :
             /\ session_state' = session_state
             /\ screen' = [BlankScreen EXCEPT !.stopped = TRUE]
             /\ pdf' = NoneDict
             /\ cancelled' = TRUE
     \/ /\ session_state' = init_session_state(session_state)
        /\ \E d \in {display_results(session_state', clock)} :
             \E preview \in {upload_preview(u) : u \in {NoneDict} \cup UploadedFiles} :
               \E stop \in {NoStop} \cup (IF stoppable THEN DisplayStops(d) ELSE {}) :
                 /\ Rendered(d, preview, FALSE, stop)
                 /\ cancelled' = (stop # NoStop)
  /\ model_calls' = 0
  /\ temp_path' = None
  /\ analysis_result' = None
  /\ UNCHANGED <<other_at, secrets, agent_cache, clock, tmp_files, pending>>

Rerun == Run(TRUE)

(* a variant without st.cache_resource: every call constructs an agent *)
get_medical_agent_uncached(cache, built) == built

(* a variant that does not memoize the None of a failed construction *)
get_medical_agent_retry(cache, built) == IF cache = <<>> \/ cache = None THEN built ELSE cache

(* get_medical_agent under st.cache_resource: built holds what Agent(...)   *)
(* gives when it is called, <<"Agent">> or None when it raised.  The        *)
(* st.error of the except branch is part of the cached call: it is shown    *)
(* again whenever the cached None is returned.  st.cache_resource computes  *)
(* under a lock and stores what the function returns.                       *)
get_medical_agent(cache, built) == IF cache = <<>> THEN built ELSE cache

(* a variant that runs the agent a second time when the first run raised *)
analyze_medical_scan_retry(agent, outcome) ==
  IF agent = None THEN [result |-> None, messages |-> <<>>, calls |-> 0]
  ELSE IF outcome.kind = "content"
       THEN [result |-> strip(outcome.text), messages |-> <<>>, calls |-> 1]
  ELSE IF outcome.kind = "raises"
       THEN [result |-> None, messages |-> <<"Error analyzing medical scan">>, calls |-> 2]
  ELSE [result |-> None, messages |-> <<>>, calls |-> 1]

(* analyze_medical_scan: outcome is what agent.run does, [kind |-> "content", *)
(* text |-> response.content], [kind |-> "raises"] or [kind |-> "no_response"] *)
(* calls counts the agent.run(enhanced_query, images=...) calls made          *)
analyze_medical_scan(agent, outcome) ==
  IF agent = None THEN [result |-> None, messages |-> <<>>, calls |-> 0]
  ELSE IF outcome.kind = "content"
       THEN [result |-> strip(outcome.text), messages |-> <<>>, calls |-> 1]
  ELSE IF outcome.kind = "raises"
       THEN [result |-> None, messages |-> <<"Error analyzing medical scan">>, calls |-> 1]
  ELSE [result |-> None, messages |-> <<>>, calls |-> 1]

(* lines 880-884: the five assignments of a successful submission *)
store_results(ss, analysis_result_, upload, patient_data, scan_type, now) ==
  [ss EXCEPT !["analysis_results"] = analysis_result_,
             !["medical_image"] = upload,
             !["patient_data"] = patient_data,
             !["scan_type"] = scan_type,
             !["analysis_timestamp"] = strftime(now)]

(* save_uploaded_file, called at time now with `files` on disk: saved says  *)
(* whether it returns the path of the file it wrote; when it raised and     *)
(* returns None, left says whether NamedTemporaryFile(delete=False) had     *)
(* already created the file                                                 *)
save_uploaded_file(files, saved, left, now) ==
  IF saved THEN [temp_path |-> <<"tmp", now>>, files |-> files \cup {<<"tmp", now>>}]
  ELSE [temp_path |-> None, files |-> IF left THEN files \cup {<<"tmp", now>>} ELSE files]

(* a variant of the finally block that leaves the file where it is *)
finally_unlink_skipped(files, path) == files

(* lines 897-899: if os.path.exists(temp_path): os.unlink(temp_path) *)
finally_unlink(files, path) == IF path \in files THEN files \ {path} ELSE files

(* response.content of the submissions of a session *)
SubmitResponses ==
  { <<"findings">>,
    PromptHeading(5) \o <<"\n", "EMERGENCY", "\n">>,
    PromptHeading(3) \o <<"<b>">> \o PromptHeading(13) \o <<"Normal">>,
    <<"\n">> }

Outcomes ==
  {[kind |-> "content", text |-> t] : t \in SubmitResponses}
  \cup {[kind |-> "raises", text |-> <<>>], [kind |-> "no_response", text |-> <<>>]}

(* the inputs a run reads: when the upload could not be saved, the run     *)
(* reads neither the form nor the agent                                    *)
ReadIf(saved, inputs, unread) == IF saved THEN inputs ELSE {unread}

(* the run of a submission is at the Streamlit call of this line *)
At(line) == pending # NoneDict /\ pending.at = line

(* what analyze_medical_scan has to give before agent.run is called *)
NoResponse == [result |-> None, messages |-> <<>>, calls |-> 0]

(* the locals of a submission whose try statement is over: none is read again *)
AtDisplay ==
  [uploaded_file |-> NoneDict, patient_data |-> NoneDict, scan_type |-> None,
   agent |-> None, response |-> NoResponse, at |-> 902]

(* st.cache_resource computes under a lock: while the get_medical_agent of *)
(* one session is between Agent(...) and its return, the call of another   *)
(* session waits                                                           *)
ThisConstructs == At(307) /\ agent_cache = <<>>

OtherConstructs == other_at = 307 /\ agent_cache = <<>>

(* A run of the script in which a file is uploaded and the Analyze button   *)
(* is pressed, lines 845-877, up to the st.error of save_uploaded_file      *)
(* (line 435) or to the call of get_medical_agent (line 349), where the     *)
(* file is written.                                                         *)
AnalyzeStart(uploaded_file, patient_data, scan_type, saved, left) ==
  /\ ApiKeysAvailable(secrets)
  /\ pending = NoneDict
  /\ clock < MaxSubmissions
  /\ clock' = clock + 1
  /\ session_state' = init_session_state(session_state)
  /\ LET file == save_uploaded_file(tmp_files, saved, left, clock')
     IN  /\ temp_path' = file.temp_path
         /\ tmp_files' = file.files
         /\ pending' = [uploaded_file |-> uploaded_file, patient_data |-> patient_data,
                        scan_type |-> scan_type, agent |-> None, response |-> NoResponse,
                        at |-> IF ~saved THEN 435 ELSE 349]
  /\ screen' = [BlankScreen EXCEPT !.messages = upload_preview(uploaded_file)]
  /\ pdf' = NoneDict
  /\ model_calls' = 0
  /\ analysis_result' = None
  /\ cancelled' = FALSE
  /\ UNCHANGED <<other_at, secrets, agent_cache>>

Submit ==
  \E saved \in BOOLEAN :
    \E uploaded_file \in UploadedFiles,
       patient_data \in ReadIf(saved, {DefaultPatient, patient_form(<<"<b>">>, <<>>)},
                               DefaultPatient),
       scan_type \in {<<"CT Scan">>},
       left \in ReadIf(~saved, BOOLEAN, FALSE) :
         AnalyzeStart(uploaded_file, patient_data, scan_type, saved, left)

(* Line 349, agent = get_medical_agent(), up to the Streamlit call that     *)
(* follows: the st.error of get_medical_agent (line 307) or st.progress     *)
(* (line 355).  The call waits while the other session constructs.  A       *)
(* constructed agent is in the cache by then; the None of a failed          *)
(* construction is stored when get_medical_agent returns.                   *)
GetAgent ==
  /\ At(349)
  /\ ~OtherConstructs
  /\ \E built \in {<<"Agent">>, None} :
       \E agent \in {get_medical_agent(agent_cache, built)} :
         /\ agent_cache' = (IF agent # None THEN agent ELSE agent_cache)
         /\ pending' = [pending EXCEPT !.agent = agent,
                                       !.at = IF agent = None THEN 307 ELSE 355]
  /\ UNCHANGED <<other_at, secrets, session_state, clock, screen, pdf, model_calls, temp_path,
                 tmp_files, analysis_result, cancelled>>

(* line 435 and the return of None: `if temp_path:` is false, the run goes *)
(* on to "Display Results"                                                 *)
SaveFailed ==
  /\ At(435)
  /\ screen' = [screen EXCEPT !.messages = @ \o <<"Error saving uploaded file">>]
  /\ pending' = AtDisplay
  /\ UNCHANGED <<other_at, secrets, agent_cache, session_state, clock, pdf, model_calls, temp_path,
                 tmp_files, analysis_result, cancelled>>

(* lines 306-308 and 350-351: the agent is None; get_medical_agent reports *)
(* it and returns, the None is in the cache, analyze_medical_scan returns  *)
(* None to line 877                                                        *)
AgentFailed ==
  /\ At(307)
  /\ agent_cache' = get_medical_agent(agent_cache, None)
  /\ \E a \in {analyze_medical_scan(pending.agent, [kind |-> "no_response", text |-> <<>>])} :
       /\ model_calls' = a.calls
       /\ analysis_result' = a.result
       /\ pending' = [pending EXCEPT !.response = a, !.at = 893]
  /\ screen' = [screen EXCEPT
                  !.messages = @ \o <<"Error initializing medical analysis agent">>]
  /\ UNCHANGED <<other_at, secrets, session_state, clock, pdf, temp_path, tmp_files, cancelled>>

(* lines 355-407: the progress display, then agent.run is called and       *)
(* returns or raises                                                       *)
ModelCall ==
  /\ At(355)
  /\ \E outcome \in Outcomes :
       \E a \in {analyze_medical_scan(pending.agent, outcome)} :
         /\ model_calls' = a.calls
         /\ pending' = [pending EXCEPT !.response = a, !.at = 409]
  /\ UNCHANGED <<other_at, secrets, agent_cache, session_state, clock, screen, pdf, temp_path,
                 tmp_files, analysis_result, cancelled>>

(* the statement of lines 880-884 at which an exception is drawn: 0 for    *)
(* none, 881 for uploaded_file.getvalue()                                  *)
RaisedAtStore == {0, 881}

(* Lines 409-420 or 422-424, then 877-884: the progress display ends (with *)
(* time.sleep between the calls of lines 413 and 417) or the exception of  *)
(* agent.run is reported, analyze_medical_scan returns, and a truthy       *)
(* result is stored.  An exception at line 881 ends the assignments there. *)
Return ==
  /\ At(409)
  /\ analysis_result' = pending.response.result
  /\ screen' = [screen EXCEPT !.messages = @ \o pending.response.messages]
  /\ \E raised_at \in ReadIf(Truthy(pending.response.result), RaisedAtStore, 0) :
       IF ~Truthy(pending.response.result)
       THEN /\ session_state' = session_state
            /\ pending' = [pending EXCEPT !.at = 893]
       ELSE IF raised_at = 881
       THEN /\ session_state' =
                 [session_state EXCEPT !["analysis_results"] = pending.response.result]
            /\ pending' = [pending EXCEPT !.at = 896]
       ELSE /\ session_state' =
                 store_results(session_state, pending.response.result,
                               pending.uploaded_file.value, pending.patient_data,
                               pending.scan_type, clock)
            /\ pending' = [pending EXCEPT !.at = 886]
  /\ UNCHANGED <<other_at, secrets, agent_cache, clock, pdf, model_calls, temp_path, tmp_files, cancelled>>

(* Line 886, st.success, which may raise; without an emergency word in the *)
(* result the try statement ends and the finally removes the file.         *)
Success ==
  /\ At(886)
  /\ \E raises \in BOOLEAN :
       IF raises
       THEN /\ pending' = [pending EXCEPT !.at = 896]
            /\ UNCHANGED <<screen, tmp_files>>
       ELSE /\ screen' = [screen EXCEPT !.messages =
                            @ \o <<"Medical scan analysis completed successfully!">>]
            /\ IF is_emergency(analysis_result)
               THEN /\ pending' = [pending EXCEPT !.at = 890]
                    /\ UNCHANGED tmp_files
               ELSE /\ pending' = AtDisplay
                    /\ tmp_files' = finally_unlink(tmp_files, temp_path)
  /\ UNCHANGED <<other_at, secrets, agent_cache, session_state, clock, pdf, model_calls, temp_path,
                 analysis_result, cancelled>>

(* lines 889-891 and the finally: the emergency banner *)
Banner ==
  /\ At(890)
  /\ screen' = [screen EXCEPT !.banner = TRUE]
  /\ tmp_files' = finally_unlink(tmp_files, temp_path)
  /\ pending' = AtDisplay
  /\ UNCHANGED <<other_at, secrets, agent_cache, session_state, clock, pdf, model_calls, temp_path,
                 analysis_result, cancelled>>

(* line 893 and the finally: the result is falsy *)
Failed ==
  /\ At(893)
  /\ screen' = [screen EXCEPT !.messages = @ \o <<"Analysis failed">>]
  /\ tmp_files' = finally_unlink(tmp_files, temp_path)
  /\ pending' = AtDisplay
  /\ UNCHANGED <<other_at, secrets, agent_cache, session_state, clock, pdf, model_calls, temp_path,
                 analysis_result, cancelled>>

(* lines 895-896 and the finally: an exception of lines 880-891 is reported *)
Except ==
  /\ At(896)
  /\ screen' = [screen EXCEPT !.messages = @ \o <<"Analysis failed: e">>]
  /\ tmp_files' = finally_unlink(tmp_files, temp_path)
  /\ pending' = AtDisplay
  /\ UNCHANGED <<other_at, secrets, agent_cache, session_state, clock, pdf, model_calls, temp_path,
                 analysis_result, cancelled>>

(* lines 901-1060: the rest of the run of a submission *)
Display ==
  /\ At(902)
  /\ \E d \in {display_results(session_state, clock)} :
       \E stop \in {NoStop} \cup DisplayStops(d) :
         /\ Rendered(d, screen.messages, screen.banner, stop)
         /\ cancelled' = (stop # NoStop)
  /\ pending' = NoneDict
  /\ UNCHANGED <<other_at, secrets, agent_cache, session_state, clock, model_calls, temp_path,
                 tmp_files, analysis_result>>

(* A rerun request is pending when the run of a submission reaches the     *)
(* Streamlit call of line pending.at: the call is not made, the exception  *)
(* leaves analyze_medical_scan, get_medical_agent (whose result is then    *)
(* not stored) and the try statement of main, whose finally removes the    *)
(* file, and the script ends.                                              *)
Interrupt ==
  /\ pending # NoneDict
  /\ pending.at \notin {349, 902}
  /\ tmp_files' = (IF temp_path = None THEN tmp_files
                   ELSE finally_unlink(tmp_files, temp_path))
  /\ screen' = [screen EXCEPT !.stopped = TRUE]
  /\ cancelled' = TRUE
  /\ pending' = NoneDict
  /\ UNCHANGED <<other_at, secrets, agent_cache, session_state, clock, pdf, model_calls, temp_path,
                 analysis_result>>

(* the names of the temporary files of another browser session: the file  *)
(* of a submission that is being handled, and the file a failed            *)
(* save_uploaded_file left; NamedTemporaryFile gives every file a name of  *)
(* its own                                                                 *)
OtherTempName(saved) == IF saved THEN 0 ELSE 0 - 1

(* A submission of another browser session, which shares the directory of  *)
(* the temporary files and the cache entry of get_medical_agent, up to its *)
(* call of get_medical_agent: save_uploaded_file (line 874) writes its     *)
(* file or fails, and may leave the file it failed on.                     *)
OtherSession ==
  /\ ApiKeysAvailable(secrets)
  /\ other_at = 0
  /\ \E saved \in BOOLEAN :
       \E left \in ReadIf(~saved, BOOLEAN, FALSE) :
         /\ tmp_files' = save_uploaded_file(tmp_files, saved, left, OtherTempName(saved)).files
         /\ other_at' = (IF saved THEN 349 ELSE 0)
  /\ UNCHANGED <<secrets, agent_cache, session_state, clock, screen, pdf, model_calls,
                 temp_path, pending, analysis_result, cancelled>>

(* line 349 in the other session: its get_medical_agent waits while this   *)
(* session constructs, then returns the cache entry, stores the agent it   *)
(* constructed, or stands at the st.error of line 307                      *)
OtherGetAgent ==
  /\ other_at = 349
  /\ ~ThisConstructs
  /\ \E built \in {<<"Agent">>, None} :
       \E agent \in {get_medical_agent(agent_cache, built)} :
         /\ agent_cache' = (IF agent # None THEN agent ELSE agent_cache)
         /\ other_at' = (IF agent = None THEN 307 ELSE 897)
  /\ UNCHANGED <<secrets, session_state, clock, screen, pdf, model_calls, temp_path,
                 tmp_files, pending, analysis_result, cancelled>>

(* lines 307-308 in the other session: get_medical_agent returns and the   *)
(* None of its failed construction is stored                               *)
OtherAgentFailed ==
  /\ other_at = 307
  /\ agent_cache' = get_medical_agent(agent_cache, None)
  /\ other_at' = 897
  /\ UNCHANGED <<secrets, session_state, clock, screen, pdf, model_calls, temp_path,
                 tmp_files, pending, analysis_result, cancelled>>

(* The finally of the other session's submission (lines 897-899) removes   *)
(* its file: at the end of its try statement, or when a rerun request      *)
(* stops it at line 307, in which case get_medical_agent stores nothing.   *)
OtherSessionEnd ==
  /\ other_at \in {307, 897}
  /\ tmp_files' = finally_unlink(tmp_files, <<"tmp", OtherTempName(TRUE)>>)
  /\ other_at' = 0
  /\ UNCHANGED <<secrets, agent_cache, session_state, clock, screen, pdf, model_calls,
                 temp_path, pending, analysis_result, cancelled>>

Next ==
  \/ ConfigStop \/ Rerun \/ Submit \/ SaveFailed \/ GetAgent \/ AgentFailed \/ ModelCall
  \/ Return \/ Success \/ Banner \/ Failed \/ Except \/ Display \/ Interrupt
  \/ OtherSession \/ OtherGetAgent \/ OtherAgentFailed \/ OtherSessionEnd

Spec == Init /\ [][Next]_vars

(* The display of a stored analysis: any analysis a successful submission   *)
(* can have stored, then runs of the script that render it.                 *)
RenderInputs ==
  {[analysis_results |-> r, medical_image |-> <<"PNG">>, patient_data |-> DefaultPatient,
    scan_type |-> <<"CT Scan">>] : r \in AnalysisResults}
  \cup
  {[analysis_results |-> strip(r), medical_image |-> u, patient_data |-> p, scan_type |-> s] :
     r \in CoreResponses, u \in Uploads, p \in Patients, s \in ScanTypes}

InitRender ==
  /\ secrets = AllSecrets
  /\ agent_cache = <<"Agent">>
  /\ clock = 1
  /\ \E inp \in RenderInputs :
       session_state = [k \in SessionKeys |->
                          IF k = "analysis_timestamp" THEN strftime(1) ELSE inp[k]]
  /\ screen = BlankScreen
  /\ pdf = NoneDict
  /\ model_calls = 0
  /\ temp_path = None
  /\ tmp_files = {}
  /\ pending = NoneDict
  /\ analysis_result = None
  /\ cancelled = FALSE
  /\ other_at = 0

(* runs that no rerun request stops *)
Render == Run(FALSE)

SpecRender == InitRender /\ [][Render]_vars

(* ---------------------------------------------------------------------- *)
(* Properties                                                              *)
(* ---------------------------------------------------------------------- *)

(* the analysis the last run displayed *)
AnalysisText == session_state["analysis_results"]

(* the last run called create_enhanced_medical_pdf and it returned a buffer *)
DocumentReturned == pdf # NoneDict /\ pdf.bytes # None

(* the schema sections that have a heading block in the last document call *)
DocSections ==
  {pdf.calls[k].sec : k \in {j \in DOMAIN pdf.calls : /\ pdf.calls[j].part = "section"
                                                      /\ pdf.calls[j].flowable = "Paragraph"}}

(* the schema sections the last run displayed on screen *)
ShownSections == {screen.shown[k].section : k \in DOMAIN screen.shown}

(* no pattern of main() and none of create_enhanced_medical_pdf matches t *)
NothingRecognized(t) ==
  \A i \in 1..NumSections : ui_content(t, i) = None /\ content_found(t, i) = None

(* C1: when the response contains no schema heading that any extraction     *)
(* strategy recognizes, the screen shows one fallback section whose body is *)
(* the whole raw response, and so does the document.                        *)
C1_RawTextFallback ==
  (screen.results /\ NothingRecognized(AnalysisText)) =>
     /\ Len(screen.shown) = 1
     /\ screen.shown[1].content = AnalysisText
     /\ DocumentReturned =>
          \E k \in DOMAIN pdf.calls : pdf.calls[k].part = "section" /\ pdf.calls[k].raw = AnalysisText

(* C2: every response gives an entry on screen and a block in the document *)
(* for every section of the schema, in schema order; a section that no      *)
(* pattern extracted is not left out.                                       *)
C2_EverySectionHasBlock ==
  screen.results =>
     /\ Len(screen.shown) = NumSections
     /\ \A i \in 1..NumSections : screen.shown[i].section = i
     /\ DocumentReturned => DocSections = 1..NumSections

(* the response has every schema heading in the form the prompt demands *)
HasEveryPromptHeading(t) ==
  \A i \in 1..NumSections : \E p \in 1..Len(t) : MatchAt(Lower(t), p, Lower(PromptHeading(i)))

AllSectionsSegmented ==
  /\ Len(screen.shown) = NumSections
  /\ ShownSections = 1..NumSections
  /\ \A i \in 1..NumSections : Truthy(content_found(AnalysisText, i))
  /\ DocumentReturned => DocSections = 1..NumSections

(* C3: a response with every schema heading in the prompt's form (in any    *)
(* letter case) is segmented into one entry per schema section, on screen   *)
(* and in the document, none missing.                                       *)
C3_WellFormedGivesAllSections ==
  (screen.results /\ HasEveryPromptHeading(AnalysisText)) => AllSectionsSegmented

(* the sections whose emphasis depends on the urgency: Emergency Status and  *)
(* Warning Signs                                                            *)
UrgencySections ==
  {i \in 1..NumSections : sections[i].key \in {"Emergency Status", "Warning Signs"}}

(* the body paragraphs of the urgency sections in the last document call *)
UrgencyBodies ==
  {k \in DOMAIN pdf.calls : /\ pdf.calls[k].part = "section"
                            /\ pdf.calls[k].flowable = "Paragraph"
                            /\ pdf.calls[k].sec \in UrgencySections
                            /\ pdf.calls[k].style # "heading_style"}

(* every urgency section that is displayed or printed has the emergency     *)
(* emphasis                                                                 *)
EmergencyEmphasisApplied ==
  /\ \A k \in DOMAIN screen.shown :
       screen.shown[k].section \in UrgencySections => screen.shown[k].section_type = "emergency"
  /\ DocumentReturned => \A k \in UrgencyBodies : pdf.calls[k].style = "emergency_style"

(* the body of some segmented section, on screen or in the document call,   *)
(* contains the word in some letter case                                    *)
SomeSectionSays(word) ==
  \/ \E k \in DOMAIN screen.shown : Contains(Lower(screen.shown[k].content), word)
  \/ /\ pdf # NoneDict
     /\ \E k \in DOMAIN pdf.calls :
          pdf.calls[k].part = "section" /\ Contains(Lower(pdf.calls[k].raw), word)

(* C4: if the text of any segmented section contains "emergency" in any     *)
(* letter case, the urgency is Emergency and the emergency emphasis is      *)
(* applied, on screen and in the document.                                  *)
C4_EmergencyInAnySectionEscalates ==
  (screen.results /\ SomeSectionSays("emergency")) =>
     (screen.is_emergency /\ EmergencyEmphasisApplied)

(* the urgency main() computes for the Emergency Status entry of its list *)
EmergencyStatusIndex == CHOOSE i \in 1..NumSections : sections[i].key = "Emergency Status"
ComputedUrgency == ui_section_type(EmergencyStatusIndex, screen.is_emergency)

(* the text has no severity vocabulary: neither "emergency" nor "urgent" *)
NoSeverityWords(t) == ~Contains(Lower(t), "emergency") /\ ~Contains(Lower(t), "urgent")

(* C5: a raw text or an Emergency Status body with no severity vocabulary   *)
(* is classified Unknown, never Normal: the urgency computed from such a    *)
(* raw text is "unknown", and such a body is not printed in the normal      *)
(* style.                                                                   *)
C5_NoSeverityWordsIsUnknown ==
  screen.results =>
    /\ NoSeverityWords(AnalysisText) =>
         (ComputedUrgency = "unknown" /\ ComputedUrgency # "normal")
    /\ DocumentReturned =>
         \A k \in UrgencyBodies :
           (pdf.calls[k].sec = EmergencyStatusIndex /\ NoSeverityWords(pdf.calls[k].raw))
             => pdf.calls[k].style # "normal_style"

(* C6: merging the whole-text signal with the reading of the Emergency      *)
(* Status and Warning Signs sections never downgrades: when the whole text  *)
(* is an emergency, those sections carry the emergency emphasis on screen   *)
(* and in the document alike.                                               *)
C6_WholeTextLevelNeverDowngraded ==
  (screen.results /\ is_emergency(AnalysisText)) => EmergencyEmphasisApplied

(* the image handed to the last document call *)
ImageData == session_state["medical_image"]

(* a Paragraph constructor raised in the last document call *)
TextNotSerializable ==
  /\ pdf # NoneDict
  /\ \E k \in DOMAIN pdf.calls :
       pdf.calls[k].flowable = "Paragraph" /\ ParagraphRaises(pdf.calls[k].text)

PartsOfDocument == {pdf.calls[k].part : k \in DOMAIN pdf.calls}

(* C7: given corrupt or undecodable image bytes (and text that can be       *)
(* serialized), the document call emits no image block and still returns a  *)
(* document with the title, the disclaimer and every section block.         *)
C7_CorruptImageIsOmitted ==
  (/\ pdf # NoneDict
   /\ ~ImageDecodes(ImageData)
   /\ ~TextNotSerializable) =>
     /\ DocumentReturned
     /\ \A k \in DOMAIN pdf.calls : pdf.calls[k].flowable # "Image"
     /\ {"title", "disclaimer"} \subseteq PartsOfDocument
     /\ DocSections = {i \in 1..NumSections : Truthy(content_found(AnalysisText, i))}

(* C8: when a text of the document cannot be serialized, the document call  *)
(* reports the failure and returns None, and the run offers no download.    *)
C8_UnserializableTextGivesNoBuffer ==
  TextNotSerializable =>
    /\ pdf.error
    /\ pdf.bytes = None
    /\ screen.download = None
    /\ \E k \in DOMAIN screen.messages : screen.messages[k] = "Error creating enhanced PDF"

C8_Witness ==
  /\ TextNotSerializable
  /\ ImageDecodes(ImageData)
  /\ pdf.bytes = None
  /\ screen.results
  /\ screen.download = None

(* C9: every caller-supplied text inside a block of the document (patient   *)
(* fields, scan type, section bodies) has its markup escaped: no block      *)
(* carries the tag "<b>" as it was typed.                                   *)
C9_DocumentTextIsEscaped ==
  pdf # NoneDict =>
    \A k \in DOMAIN pdf.calls : \A j \in DOMAIN pdf.calls[k].raw : pdf.calls[k].raw[j] # "<b>"

(* the place of a part in the order of the document *)
PartRank(part) ==
  CASE part = "title" -> 1
    [] part = "disclaimer" -> 2
    [] part = "patient" -> 3
    [] part \in {"image", "image_error"} -> 4
    [] part = "analysis" -> 5
    [] part = "section" -> 6
    [] part = "contact" -> 7
    [] part = "footer" -> 8

(* the emergency contact paragraph is among the blocks *)
CalloutPresent ==
  \E k \in DOMAIN pdf.calls :
    /\ pdf.calls[k].part = "contact"
    /\ pdf.calls[k].style = "emergency_style"

(* C10: the blocks of a document call come in the order title, disclaimer,  *)
(* patient attributes, image, sections in schema order, emergency contact   *)
(* callout, footer; a returned document has the image block when the image  *)
(* decodes and has the callout whatever the urgency is.                     *)
C10_FixedBlockOrder ==
  pdf # NoneDict =>
    /\ \A j, k \in DOMAIN pdf.calls :
         j < k => /\ PartRank(pdf.calls[j].part) <= PartRank(pdf.calls[k].part)
                  /\ (pdf.calls[j].part = "section" /\ pdf.calls[k].part = "section"
                      /\ pdf.calls[j].flowable = "Paragraph" /\ pdf.calls[k].flowable = "Paragraph")
                       => pdf.calls[j].sec <= pdf.calls[k].sec
    /\ DocumentReturned =>
         /\ {"title", "disclaimer", "patient", "contact", "footer"} \subseteq PartsOfDocument
         /\ ImageDecodes(ImageData) =>
              \E k \in DOMAIN pdf.calls : pdf.calls[k].flowable = "Image"
         /\ CalloutPresent

C10_Witness ==
  /\ DocumentReturned
  /\ ~is_emergency(AnalysisText)
  /\ Cardinality(DocSections) >= 2
  /\ CalloutPresent
  /\ \E k \in DOMAIN pdf.calls : pdf.calls[k].flowable = "Image"

(* ---------------------------------------------------------------------- *)
(* Submissions                                                             *)
(* ---------------------------------------------------------------------- *)

(* the number of times message m is on the screen *)
CountOf(messages, m) == Cardinality({k \in DOMAIN messages : messages[k] = m})

Shows(m) == CountOf(screen.messages, m) >= 1

(* the last run has ended, was not stopped by a rerun request, called the  *)
(* model and got nothing it could use                                      *)
ModelCallFailed ==
  /\ pending = NoneDict
  /\ ~screen.stopped
  /\ model_calls >= 1
  /\ ~Truthy(analysis_result)

(* C11: when the model call raises or returns no usable content, the        *)
(* submission shows "Analysis failed" exactly once, no success and no       *)
(* emergency banner, and the model was run exactly once: no retry.          *)
C11_ModelFailureSurfacedOnceNoRetry ==
  /\ model_calls <= 1
  /\ ModelCallFailed =>
       /\ model_calls = 1
       /\ CountOf(screen.messages, "Analysis failed") = 1
       /\ ~screen.banner

C11_Witness ==
  /\ ModelCallFailed
  /\ model_calls = 1
  /\ Shows("Error analyzing medical scan")
  /\ Shows("Analysis failed")

(* the last run was a submission that ended in a failure *)
SubmissionFailed ==
  /\ pending = NoneDict
  /\ \/ Shows("Analysis failed")
     \/ Shows("Analysis failed: e")
     \/ Shows("Error saving uploaded file")

(* C12: what a submission shows depends on that submission alone: a failed  *)
(* submission shows no results, makes no document and offers no download.   *)
C12_FailedSubmissionShowsNoEarlierResults ==
  SubmissionFailed => (~screen.results /\ pdf = NoneDict /\ screen.download = None)

(* C13: the agent is constructed at most once: once get_medical_agent has   *)
(* a cache entry, every later submission gets that same entry.              *)
C13_AgentConstructedOnce ==
  [][agent_cache # <<>> => agent_cache' = agent_cache]_vars

(* a second submission ran the model with the cached agent *)
C13_Witness ==
  /\ clock = 2
  /\ agent_cache = <<"Agent">>
  /\ model_calls = 1

PatientData == session_state["patient_data"]

(* the free-text fields of the profile *)
ProfileTextFields ==
  {"medical_history", "medications", "symptoms", "health_problems", "family_history",
   "diet", "lifestyle", "habits"}

(* the paragraphs of the patient block that show a value *)
PatientRows ==
  {k \in DOMAIN pdf.calls : pdf.calls[k].part = "patient" /\ pdf.calls[k].style = "normal_style"}

(* C15: no blank profile field reaches the prompt or the patient block of   *)
(* the document: every stored field, every profile line of the prompt and   *)
(* every row of the patient block carries a value that is not empty.        *)
C15_BlankProfileFieldsReplaced ==
  (screen.results /\ PatientData # NoneDict) =>
    /\ \A f \in ProfileTextFields : PatientData[f] # <<>>
    /\ \A k \in 1..Len(enhanced_query(PatientData, session_state["scan_type"])) :
         Len(enhanced_query(PatientData, session_state["scan_type"])[k]) > 1
    /\ pdf # NoneDict => \A k \in PatientRows : pdf.calls[k].raw # <<>>

(* the label under which the document would show a field of the profile *)
RowLabel(field) ==
  CASE field = "age" -> "Age: "
    [] field = "gender" -> "Gender: "
    [] field = "medical_history" -> "Medical History: "
    [] field = "medications" -> "Current Medications: "
    [] field = "symptoms" -> "Current Symptoms: "
    [] field = "health_problems" -> "Health Problems: "
    [] field = "family_history" -> "Family History: "
    [] field = "diet" -> "Diet: "
    [] field = "lifestyle" -> "Lifestyle: "
    [] field = "habits" -> "Habits: "

(* C16: the patient block of a returned document has a row for every field  *)
(* of the patient profile.                                                  *)
C16_RowForEveryProfileField ==
  DocumentReturned =>
    \A f \in DOMAIN PatientData :
      \E k \in PatientRows : pdf.calls[k].text[1] = RowLabel(f)

(* ---------------------------------------------------------------------- *)
(* Extraction                                                              *)
(* ---------------------------------------------------------------------- *)

(* the text has a heading of section j, in one of the forms the patterns of *)
(* either loop look for, in any letter case                                 *)
HasHeadingOf(t, j) ==
  \/ \E k \in DOMAIN pdf_patterns(j) : Find(Lower(t), Lower(pdf_patterns(j)[k].lit)) # 0
  \/ \E k \in DOMAIN ui_patterns(j) : Find(Lower(t), Lower(ui_patterns(j)[k].lit)) # 0

HasOtherHeading(body, i) ==
  \E j \in 1..NumSections \ {i} : HasHeadingOf(body, j)

(* C17: the body extracted for a section ends at the first heading of any   *)
(* other schema section: no extracted body, on screen or for the document,  *)
(* contains the heading of another section.                                 *)
C17_BodyStopsAtAnyOtherHeading ==
  screen.results =>
    \A i \in 1..NumSections :
      /\ Truthy(ui_content(AnalysisText, i)) => ~HasOtherHeading(ui_content(AnalysisText, i), i)
      /\ Truthy(content_found(AnalysisText, i)) => ~HasOtherHeading(content_found(AnalysisText, i), i)

(* the patterns of the list whose capture, stripped, is not empty *)
NonEmptyCaptures(patterns, t) ==
  {k \in DOMAIN patterns : /\ re_search(patterns[k], t, Lower(t)) # None
                           /\ strip(re_search(patterns[k], t, Lower(t))) # <<>>}

(* what the claimed rule gives: the capture of the first pattern, in list   *)
(* order, whose capture is not empty, None when there is no such pattern    *)
FirstNonEmptyCapture(patterns, t) ==
  IF NonEmptyCaptures(patterns, t) = {} THEN None
  ELSE strip(re_search(patterns[Min(NonEmptyCaptures(patterns, t))], t, Lower(t)))

(* C18: for each section the first pattern with a non-empty capture wins,   *)
(* and the section is unmatched only when no pattern has a non-empty        *)
(* capture.                                                                 *)
C18_FirstNonEmptyCaptureWins ==
  screen.results =>
    \A i \in 1..NumSections :
      /\ Truthy(content_found(AnalysisText, i))
           <=> NonEmptyCaptures(pdf_patterns(i), AnalysisText) # {}
      /\ Truthy(content_found(AnalysisText, i))
           => content_found(AnalysisText, i) = FirstNonEmptyCapture(pdf_patterns(i), AnalysisText)
      /\ Truthy(ui_content(AnalysisText, i))
           <=> NonEmptyCaptures(ui_patterns(i), AnalysisText) # {}
      /\ Truthy(ui_content(AnalysisText, i))
           => ui_content(AnalysisText, i) = FirstNonEmptyCapture(ui_patterns(i), AnalysisText)

(* ---------------------------------------------------------------------- *)
(* Optional blocks                                                         *)
(* ---------------------------------------------------------------------- *)

(* block k is a heading of a section and block k + 1 is not a body          *)
(* paragraph of that section with text in it                                *)
HeadingWithoutBody(blocks, k) ==
  /\ blocks[k].part = "section"
  /\ blocks[k].style = "heading_style"
  /\ ~(/\ k + 1 <= Len(blocks)
       /\ blocks[k + 1].flowable = "Paragraph"
       /\ blocks[k + 1].part = "section"
       /\ blocks[k + 1].sec = blocks[k].sec
       /\ blocks[k + 1].style # "heading_style"
       /\ strip(blocks[k + 1].text) # <<>>)

(* block k is the image heading and block k + 1 is not the image *)
ImageHeadingWithoutImage(blocks, k) ==
  /\ blocks[k].part = "image"
  /\ blocks[k].style = "heading_style"
  /\ ~(k + 1 <= Len(blocks) /\ blocks[k + 1].flowable = "Image")

(* what the function appends for the stored analysis when it is given no    *)
(* image: None or b""                                                       *)
BlocksWithoutImage(image_data) ==
  pdf_content(image_data, AnalysisText, PatientData, session_state["scan_type"], strftime(clock))

(* C19: the document has no block for optional data that is absent: with    *)
(* no image there is no image heading and no image block, and every section *)
(* heading, and the image heading, is followed by its content.              *)
C19_NoEmptyOptionalBlocks ==
  (screen.results /\ PatientData # NoneDict) =>
    /\ \A image_data \in {None, <<>>} :
         \A blocks \in {BlocksWithoutImage(image_data)} :
           \A k \in DOMAIN blocks :
             /\ blocks[k].part \notin {"image", "image_error"}
             /\ ~HeadingWithoutBody(blocks, k)
    /\ DocumentReturned =>
         \A k \in DOMAIN pdf.calls :
           ~HeadingWithoutBody(pdf.calls, k) /\ ~ImageHeadingWithoutImage(pdf.calls, k)

(* a returned document with an image, with some sections and without others *)
C19_Witness ==
  /\ DocumentReturned
  /\ DocSections # {} /\ DocSections # 1..NumSections
  /\ \E k \in DOMAIN pdf.calls : pdf.calls[k].flowable = "Image"
  /\ Len(BlocksWithoutImage(<<>>)) < Len(pdf.calls)

(* ---------------------------------------------------------------------- *)
(* The session fields                                                      *)
(* ---------------------------------------------------------------------- *)

(* no session field holds a value: the keys are missing or hold None *)
SessionUnset ==
  \A k \in DOMAIN session_state :
    IF k = "patient_data" THEN session_state[k] = NoneDict ELSE session_state[k] = None

(* all five session fields hold a value *)
SessionSet ==
  /\ DOMAIN session_state = SessionKeys
  /\ \A k \in SessionKeys :
       IF k = "patient_data" THEN session_state[k] # NoneDict ELSE session_state[k] # None

(* a step leaves the values of the session fields as they are, or is the    *)
(* end of a submission that writes all five of them: its own analysis,      *)
(* image, profile and scan type, stamped with its own time                  *)
WritesNoneOrAll ==
  \/ init_session_state(session_state') = init_session_state(session_state)
  \/ /\ pending # NoneDict
     /\ SessionSet'
     /\ session_state'["analysis_results"] = analysis_result'
     /\ session_state'["medical_image"] = pending.uploaded_file.value
     /\ session_state'["patient_data"] = pending.patient_data
     /\ session_state'["scan_type"] = pending.scan_type
     /\ session_state'["analysis_timestamp"] = strftime(clock')

(* C20: the five session fields are all unset or all set, and every step    *)
(* writes none of them or all of them.                                      *)
C20_SessionFieldsAllOrNone ==
  [](SessionUnset \/ SessionSet) /\ [][WritesNoneOrAll]_vars

(* ---------------------------------------------------------------------- *)
(* The temporary file and the cached agent                                 *)
(* ---------------------------------------------------------------------- *)

(* C21: once save_uploaded_file has returned a path in a run, the file of   *)
(* that path is gone when the run ends, whether the analysis succeeded,     *)
(* gave no result or raised.                                                *)
C21_TempFileDeleted ==
  (temp_path # None /\ (pending = NoneDict \/ At(902))) => temp_path \notin tmp_files

(* a submission whose file was saved and whose model call raised *)
C21_Witness ==
  /\ temp_path # None
  /\ pending = NoneDict
  /\ temp_path \notin tmp_files
  /\ model_calls = 1
  /\ Shows("Error analyzing medical scan")
  /\ Shows("Analysis failed")

(* C22: when the construction of the agent raised, None is what is cached:  *)
(* from then on the cache keeps None, whatever a new construction would     *)
(* give, and every submission whose file was saved fails with "Analysis     *)
(* failed" without a model call and without storing anything.               *)
C22_FailedConstructionIsMemoized ==
  [][agent_cache = None =>
       /\ agent_cache' = None
       /\ model_calls' = 0
       /\ init_session_state(session_state') = init_session_state(session_state)
       /\ (temp_path' # None /\ pending' = NoneDict /\ ~screen'.stopped) =>
            CountOf(screen'.messages, "Analysis failed") = 1]_vars

(* a second submission was handled with the cached None *)
C22_Witness ==
  /\ agent_cache = None
  /\ pending = NoneDict
  /\ ~screen.stopped
  /\ clock = 2
  /\ temp_path # None
  /\ model_calls = 0
  /\ Shows("Analysis failed")

====
